---- MODULE Spec2Model ----
(***************************************************************************)
(* Model of pkg/haproxy/types/host.go: the Hosts registry (items,          *)
(* itemsAdd, itemsDel, sslPassthroughCount, hasCommit), the Host entities  *)
(* it points to, and the operations AcquireHost, FindHost, RemoveAll,      *)
(* Shrink, Commit, AddPath and SetSSLPassthrough.                          *)
(*                                                                         *)
(* Go pointers to Host are indices into `heap`; a map of such pointers is  *)
(* a function from its set of keys to such indices.  A Host stays usable   *)
(* by its holder after the registry dropped it, so the operations on a     *)
(* Host apply to every allocated index, not only to those in items.        *)
(***************************************************************************)
EXTENDS Integers, Sequences, FiniteSets

(* ---------------------------- bounds ---------------------------------- *)
\* number of Host objects createHost may allocate in one behaviour
MaxHosts == 2
\* number of HostPath entries AddPath may put on one Host
MaxPaths == 1
\* the same, where the path list itself is examined
MaxSortPaths == 3
\* length of the hostname list given to one RemoveAll call
MaxNames == 2
\* number of Host objects allocated where the sorted enumeration is examined
MaxSortedHosts == 3

\* hostnames and path strings the callers use
HostNames == {"a", "b"}
PathStrs == {"/", "/a"}
SortPathStrs == {"/", "/a", "/b"}
MatchTypes == {"prefix", "exact"}
CAHashes == {"", "ca1"}

\* nil pointer
Nil == 0

\* the hostname of the catch-all host
DefaultHost == "<default>"
SortedHostNames == {"a", "b", DefaultHost}

(* ------------------------- string order -------------------------------- *)
\* The bytes of the strings in use; Go compares strings bytewise.
Bytes(s) ==
  CASE s = "" -> <<>>
    [] s = "/" -> <<47>>
    [] s = "/a" -> <<47, 97>>
    [] s = "/b" -> <<47, 98>>
    [] s = "a" -> <<97>>
    [] s = "b" -> <<98>>
    [] s = "c" -> <<99>>
    [] s = "<default>" -> <<60, 100, 101, 102, 97, 117, 108, 116, 62>>

RECURSIVE LexLess(_, _)
LexLess(u, v) ==
  IF v = <<>> THEN FALSE
  ELSE IF u = <<>> THEN TRUE
  ELSE IF Head(u) # Head(v) THEN Head(u) < Head(v)
  ELSE LexLess(Tail(u), Tail(v))

\* Go's  s < t  and  s > t  on strings
StrLess(s, t) == LexLess(Bytes(s), Bytes(t))
StrGreater(s, t) == LexLess(Bytes(t), Bytes(s))

(* ------------------------------ maps ----------------------------------- *)
EmptyMap == [k \in {} |-> Nil]
MapPut(m, k, v) == [x \in (DOMAIN m) \cup {k} |-> IF x = k THEN v ELSE m[x]]
MapDelete(m, k) == [x \in (DOMAIN m) \ {k} |-> m[x]]
\* m[k] of a Go map of pointers: nil when k is no key
MapGet(m, k) == IF k \in DOMAIN m THEN m[k] ELSE Nil

(* ----------------------------- backends -------------------------------- *)
\* The Backend entities AddPath may be given; Nil stands for a nil *Backend.
BackendRefs == {1}
\* the identities a Backend may be given by its owner
BackendValues ==
  {[ID |-> "ns_svc_8080", Namespace |-> "ns", Name |-> "svc", Port |-> "8080"],
   [ID |-> "ns2_web_9090", Namespace |-> "ns2", Name |-> "web", Port |-> "9090"]}

InitBackends ==
  [b \in BackendRefs |->
     [ID |-> "ns_svc_8080", Namespace |-> "ns", Name |-> "svc", Port |-> "8080",
      Paths |-> {}]]

\* backend.AddBackendPath(link): the backend's reverse index gains the link
AddBackendPath(bs, b, link) ==
  [bs EXCEPT ![b].Paths = @ \cup {link}]

(* ------------------------------ state ---------------------------------- *)
VARIABLES
  items,                \* Hosts.items: hostname -> *Host
  itemsAdd,             \* Hosts.itemsAdd
  itemsDel,             \* Hosts.itemsDel
  sslPassthroughCount,  \* Hosts.sslPassthroughCount
  hasCommit,            \* Hosts.hasCommit
  heap,                 \* the Host objects allocated so far, by pointer
  backends,             \* the Backend objects, by pointer
  op,                   \* the call made by the last step
  ret,                  \* what that call returned (Nil when it returns nothing)
  net,                  \* hostnames whose last AcquireHost/RemoveAll was AcquireHost
  committed,            \* items as it was at the last Commit
  acquired,             \* hostname -> *Host returned by AcquireHost in this cycle,
                        \*   forgotten when RemoveAll names the hostname
  cancelled             \* hostnames a Shrink of this cycle took out of the delta

registry == <<items, itemsAdd, itemsDel, sslPassthroughCount, hasCommit>>
history == <<net, committed, acquired, cancelled>>
vars == <<items, itemsAdd, itemsDel, sslPassthroughCount, hasCommit, heap,
          backends, op, ret, net, committed, acquired, cancelled>>

HostRefs == 1..Len(heap)

(* ------------------------ pure functions ------------------------------- *)
CreatePathLink(hostname, path) == [hostname |-> hostname, path |-> path]

\* the PathLinks Less is applied to
LinkHostNames == {"", "a", "b"}
LinkPaths == {"", "/", "/a", "/b"}
PathLinks == {CreatePathLink(hostname, path) :
                hostname \in LinkHostNames, path \in LinkPaths}

IsEmpty(l) == l.hostname = "" /\ l.path = ""

\* a Less that orders the paths ascending whatever the flag
Less_IgnoresReverse(l, other, reversePath) ==
  IF l.hostname = other.hostname
  THEN StrLess(l.path, other.path)
  ELSE StrLess(l.hostname, other.hostname)

Less(l, other, reversePath) ==
  IF l.hostname = other.hostname
  THEN IF reversePath
       THEN StrGreater(l.path, other.path)
       ELSE StrLess(l.path, other.path)
  ELSE StrLess(l.hostname, other.hostname)

createHost(hostname) ==
  [Hostname |-> hostname, Paths |-> <<>>, TLS |-> [CAHash |-> ""],
   VarNamespace |-> FALSE, sslPassthrough |-> FALSE]

\* a lookup that never finds the host
FindHost_AlwaysNil(hostname) == Nil

FindHost(hostname) == MapGet(items, hostname)

Changed == Cardinality(DOMAIN itemsAdd) > 0 \/ Cardinality(DOMAIN itemsDel) > 0

HasCommit == hasCommit

HasSSLPassthrough == sslPassthroughCount > 0

HasVarNamespace == \E k \in DOMAIN items : heap[items[k]].VarNamespace

HasTLSAuth(host) == host.TLS.CAHash # ""

\* a comparison by reference identity alone
DeepEqual_SamePointer(hp, add, del) == add = del

\* a comparison that leaves the path list out
DeepEqual_IgnoresPaths(hp, add, del) ==
  add = del \/ [hp[add] EXCEPT !.Paths = <<>>] = [hp[del] EXCEPT !.Paths = <<>>]

\* reflect.DeepEqual on two *Host: the same pointer, or deeply equal values.
\* The back-pointer Host.hosts is the one registry in both and always equal.
DeepEqual(hp, add, del) == add = del \/ hp[add] = hp[del]

\* a snapshot that leaves the port out
NewHostBackend_NoPort(bs, backend) ==
  IF backend # Nil
  THEN [ID |-> bs[backend].ID, Namespace |-> bs[backend].Namespace,
        Name |-> bs[backend].Name, Port |-> ""]
  ELSE [ID |-> "_error404", Namespace |-> "", Name |-> "", Port |-> ""]

\* a binding that has no sentinel for a nil backend
NewHostBackend_NoSentinel(bs, backend) ==
  IF backend # Nil
  THEN [ID |-> bs[backend].ID, Namespace |-> bs[backend].Namespace,
        Name |-> bs[backend].Name, Port |-> bs[backend].Port]
  ELSE [ID |-> "", Namespace |-> "", Name |-> "", Port |-> ""]

\* the HostBackend AddPath binds: a copy of the backend's identity, or the
\* sentinel for a nil backend
NewHostBackend(bs, backend) ==
  IF backend # Nil
  THEN [ID |-> bs[backend].ID, Namespace |-> bs[backend].Namespace,
        Name |-> bs[backend].Name, Port |-> bs[backend].Port]
  ELSE [ID |-> "_error404", Namespace |-> "", Name |-> "", Port |-> ""]

\* a comparator with the order turned round
PathsLess_Ascending(x, y) == StrLess(x.Path, y.Path)

\* the comparator AddPath gives to sort.Slice
PathsLess(x, y) == StrGreater(x.Path, y.Path)

\* sort.Slice on a slice of at most 12 elements (all the lists here) is an
\* insertion sort: element j moves left while it is less than its left
\* neighbour, so elements with equal Path keep the order they were added in.
RECURSIVE InsertLeft(_, _)
InsertLeft(s, j) ==
  IF j > 1 /\ PathsLess(s[j], s[j - 1])
  THEN InsertLeft([s EXCEPT ![j] = s[j - 1], ![j - 1] = s[j]], j - 1)
  ELSE s

RECURSIVE SortFrom(_, _)
SortFrom(s, i) == IF i > Len(s) THEN s ELSE SortFrom(InsertLeft(s, i), i + 1)

\* a sort that drops the last element when its path is already there
SortPaths_Unique(s) ==
  IF Len(s) > 1 /\ \E i \in 1..(Len(s) - 1) : s[i].Path = s[Len(s)].Path
  THEN SubSeq(s, 1, Len(s) - 1)
  ELSE SortFrom(s, 2)

SortPaths(s) == SortFrom(s, 2)

\* the loop of FindPath: the first element with the path, as its position
\* in the list (the pointer held there), or Nil
FindPathIn(paths, path) ==
  LET hits == {i \in DOMAIN paths : paths[i].Path = path} IN
  IF hits = {} THEN Nil
  ELSE CHOOSE i \in hits : \A j \in hits : i <= j

FindPath(host, path) == FindPathIn(host.Paths, path)

\* releaseHost: the counter after the registry let go of the Host
releaseHost(count, host) == IF host.sslPassthrough THEN count - 1 ELSE count

\* a loop that records in itemsDel every hostname it is given
RECURSIVE RemoveLoop_RecordsUnknown(_, _)
RemoveLoop_RecordsUnknown(st, hostnames) ==
  IF hostnames = <<>> THEN st
  ELSE LET hostname == Head(hostnames)
           item == MapGet(st.items, hostname) IN
       RemoveLoop_RecordsUnknown(
         [items |-> MapDelete(st.items, hostname),
          itemsDel |-> MapPut(st.itemsDel, hostname, item),
          count |-> IF item # Nil THEN releaseHost(st.count, heap[item])
                    ELSE st.count],
         Tail(hostnames))

\* The loop of RemoveAll over its argument, on (items, itemsDel, count).
RECURSIVE RemoveLoop(_, _)
RemoveLoop(st, hostnames) ==
  IF hostnames = <<>> THEN st
  ELSE LET hostname == Head(hostnames) IN
       IF hostname \in DOMAIN st.items
       THEN LET item == st.items[hostname] IN
            RemoveLoop([items |-> MapDelete(st.items, hostname),
                        itemsDel |-> MapPut(st.itemsDel, hostname, item),
                        count |-> releaseHost(st.count, heap[item])],
                       Tail(hostnames))
       ELSE RemoveLoop(st, Tail(hostnames))

\* The hostnames the loop of Shrink finds in both maps with DeepEqual hosts.
\* Each iteration reads and writes the entries of its own hostname only, so
\* the map's iteration order does not matter.
\* a loop that stops after the first pair it cancels
ShrinkMatches_First ==
  LET all == {name \in DOMAIN itemsDel :
                name \in DOMAIN itemsAdd /\
                  (itemsAdd[name] = itemsDel[name] \/
                     heap[itemsAdd[name]] = heap[itemsDel[name]])} IN
  IF all = {} THEN {} ELSE {CHOOSE name \in all : TRUE}

ShrinkMatches ==
  {name \in DOMAIN itemsDel :
     name \in DOMAIN itemsAdd /\ DeepEqual(heap, itemsAdd[name], itemsDel[name])}

Range(s) == {s[i] : i \in DOMAIN s}

\* The orders in which a range over a map with these keys may visit them.
KeyOrders(keys) ==
  {f \in [1..Cardinality(keys) -> keys] : \A i, j \in DOMAIN f : i # j => f[i] # f[j]}

\* the comparator BuildSortedItems gives to sort.Slice, on two *Host
HostsLess(x, y) == StrLess(heap[x].Hostname, heap[y].Hostname)

RECURSIVE InsertLeftHost(_, _)
InsertLeftHost(s, j) ==
  IF j > 1 /\ HostsLess(s[j], s[j - 1])
  THEN InsertLeftHost([s EXCEPT ![j] = s[j - 1], ![j - 1] = s[j]], j - 1)
  ELSE s

RECURSIVE SortHostsFrom(_, _)
SortHostsFrom(s, i) ==
  IF i > Len(s) THEN s ELSE SortHostsFrom(InsertLeftHost(s, i), i + 1)

SortHosts(s) == SortHostsFrom(s, 2)

\* a first loop that keeps the default host
RECURSIVE CollectItems_KeepsDefault(_)
CollectItems_KeepsDefault(order) ==
  IF order = <<>> THEN <<>>
  ELSE <<items[Head(order)]>> \o CollectItems_KeepsDefault(Tail(order))

\* the first loop of BuildSortedItems, visiting the keys of items in `order`
RECURSIVE CollectItems(_)
CollectItems(order) ==
  IF order = <<>> THEN <<>>
  ELSE IF Head(order) # DefaultHost
       THEN <<items[Head(order)]>> \o CollectItems(Tail(order))
       ELSE CollectItems(Tail(order))

\* A []*Host result: the nil slice, or the elements of a slice.
NilSlice == [isNil |-> TRUE, elems |-> <<>>]
Slice(s) == [isNil |-> FALSE, elems |-> s]

\* BuildSortedItems when the range over items visits its keys in `order`
BuildSortedItems(order) ==
  LET sorted == SortHosts(CollectItems(order)) IN
  IF Len(sorted) = 0 THEN NilSlice ELSE Slice(sorted)
NameLists == UNION {[1..n -> HostNames] : n \in 0..MaxNames}

(* ----------------------------- Init ------------------------------------ *)
\* CreateHosts()
Init ==
  /\ items = EmptyMap
  /\ itemsAdd = EmptyMap
  /\ itemsDel = EmptyMap
  /\ sslPassthroughCount = 0
  /\ hasCommit = FALSE
  /\ heap = <<>>
  /\ backends = InitBackends
  /\ op = [name |-> "CreateHosts"]
  /\ ret = Nil
  /\ net = {}
  /\ committed = EmptyMap
  /\ acquired = EmptyMap
  /\ cancelled = {}

(* ---------------------------- actions ---------------------------------- *)
AcquireHost(hostname) ==
  /\ op' = [name |-> "AcquireHost", arg |-> hostname,
            again |-> hostname \in DOMAIN acquired]
  /\ net' = net \cup {hostname}
  /\ cancelled' = cancelled \ {hostname}
  /\ UNCHANGED <<itemsDel, sslPassthroughCount, hasCommit, backends, committed>>
  /\ IF FindHost(hostname) # Nil
     THEN /\ ret' = FindHost(hostname)
          /\ acquired' = MapPut(acquired, hostname, FindHost(hostname))
          /\ UNCHANGED <<items, itemsAdd, heap>>
     ELSE /\ heap' = Append(heap, createHost(hostname))
          /\ items' = MapPut(items, hostname, Len(heap) + 1)
          /\ itemsAdd' = MapPut(itemsAdd, hostname, Len(heap) + 1)
          /\ ret' = Len(heap) + 1
          /\ acquired' = MapPut(acquired, hostname, Len(heap) + 1)

FindHostCall(hostname) ==
  /\ op' = [name |-> "FindHost", arg |-> hostname]
  /\ ret' = FindHost(hostname)
  /\ UNCHANGED <<registry, heap, backends, history>>

RemoveAll(hostnames) ==
  LET st == RemoveLoop([items |-> items, itemsDel |-> itemsDel,
                        count |-> sslPassthroughCount], hostnames) IN
  /\ op' = [name |-> "RemoveAll", arg |-> (DOMAIN items) \cap Range(hostnames),
            hostnames |-> hostnames]
  /\ ret' = Nil
  /\ items' = st.items
  /\ itemsDel' = st.itemsDel
  /\ sslPassthroughCount' = st.count
  /\ net' = net \ Range(hostnames)
  /\ acquired' = [k \in (DOMAIN acquired) \ Range(hostnames) |-> acquired[k]]
  /\ UNCHANGED <<itemsAdd, hasCommit, heap, backends, committed, cancelled>>

Shrink ==
  LET match == ShrinkMatches IN
  /\ op' = [name |-> "Shrink", arg |-> match]
  /\ ret' = Nil
  /\ items' = [k \in (DOMAIN items) \cup match |->
                 IF k \in match THEN itemsDel[k] ELSE items[k]]
  /\ itemsAdd' = [k \in (DOMAIN itemsAdd) \ match |-> itemsAdd[k]]
  /\ itemsDel' = [k \in (DOMAIN itemsDel) \ match |-> itemsDel[k]]
  /\ cancelled' = cancelled \cup match
  /\ UNCHANGED <<sslPassthroughCount, hasCommit, heap, backends, net,
                 committed, acquired>>

\* a Commit that leaves the removed hosts in itemsDel
Commit_KeepsItemsDel ==
  /\ op' = [name |-> "Commit", arg |-> Nil]
  /\ ret' = Nil
  /\ itemsAdd' = EmptyMap
  /\ hasCommit' = TRUE
  /\ committed' = items
  /\ acquired' = EmptyMap
  /\ cancelled' = {}
  /\ UNCHANGED <<items, itemsDel, sslPassthroughCount, heap, backends, net>>

\* a Commit that does not record that it happened
Commit_NoFlag ==
  /\ op' = [name |-> "Commit", arg |-> Nil]
  /\ ret' = Nil
  /\ itemsAdd' = EmptyMap
  /\ itemsDel' = EmptyMap
  /\ committed' = items
  /\ acquired' = EmptyMap
  /\ cancelled' = {}
  /\ UNCHANGED <<items, sslPassthroughCount, hasCommit, heap, backends, net>>

\* a Commit that resets the registry by building it anew
Commit_Recreates ==
  /\ op' = [name |-> "Commit", arg |-> Nil]
  /\ ret' = Nil
  /\ items' = EmptyMap
  /\ itemsAdd' = EmptyMap
  /\ itemsDel' = EmptyMap
  /\ sslPassthroughCount' = 0
  /\ hasCommit' = TRUE
  /\ committed' = EmptyMap
  /\ acquired' = EmptyMap
  /\ cancelled' = {}
  /\ UNCHANGED <<heap, backends, net>>

Commit ==
  /\ op' = [name |-> "Commit", arg |-> Nil]
  /\ ret' = Nil
  /\ itemsAdd' = EmptyMap
  /\ itemsDel' = EmptyMap
  /\ hasCommit' = TRUE
  /\ committed' = items
  /\ acquired' = EmptyMap
  /\ cancelled' = {}
  /\ UNCHANGED <<items, sslPassthroughCount, heap, backends, net>>

AddPath(h, backend, path, match) ==
  LET link == CreatePathLink(heap[h].Hostname, path)
      hback == NewHostBackend(backends, backend)
      hpath == [Path |-> path, Link |-> link, Match |-> match, Backend |-> hback]
  IN
  /\ op' = [name |-> "AddPath", arg |-> Nil, host |-> h, backend |-> backend,
            path |-> path, match |-> match]
  /\ ret' = Nil
  /\ backends' = IF backend # Nil THEN AddBackendPath(backends, backend, link)
                 ELSE backends
  /\ heap' = [heap EXCEPT ![h].Paths = SortPaths(Append(@, hpath))]
  /\ UNCHANGED <<registry, history>>

SetSSLPassthrough(h, value) ==
  /\ op' = [name |-> "SetSSLPassthrough", arg |-> Nil]
  /\ ret' = Nil
  /\ IF heap[h].sslPassthrough = value
     THEN UNCHANGED <<sslPassthroughCount, heap>>
     ELSE /\ sslPassthroughCount' =
               IF value THEN sslPassthroughCount + 1 ELSE sslPassthroughCount - 1
          /\ heap' = [heap EXCEPT ![h].sslPassthrough = value]
  /\ UNCHANGED <<items, itemsAdd, itemsDel, hasCommit, backends, history>>

\* a caller's assignment to the exported field Host.VarNamespace
SetVarNamespace(h, value) ==
  /\ op' = [name |-> "SetVarNamespace", arg |-> Nil]
  /\ ret' = Nil
  /\ heap' = [heap EXCEPT ![h].VarNamespace = value]
  /\ UNCHANGED <<registry, backends, history>>

\* a caller's assignment to the exported field Host.TLS
SetTLS(h, hash) ==
  /\ op' = [name |-> "SetTLS", arg |-> Nil]
  /\ ret' = Nil
  /\ heap' = [heap EXCEPT ![h].TLS = [CAHash |-> hash]]
  /\ UNCHANGED <<registry, backends, history>>

FindPathCall(h, path) ==
  /\ op' = [name |-> "FindPath", arg |-> Nil, host |-> h, path |-> path]
  /\ ret' = FindPath(heap[h], path)
  /\ UNCHANGED <<registry, heap, backends, history>>

\* the owner of a Backend assigns its exported fields
SetBackend(b, value) ==
  /\ op' = [name |-> "SetBackend", arg |-> Nil]
  /\ ret' = Nil
  /\ backends' = [backends EXCEPT ![b].ID = value.ID,
                                  ![b].Namespace = value.Namespace,
                                  ![b].Name = value.Name,
                                  ![b].Port = value.Port]
  /\ UNCHANGED <<registry, heap, history>>

BuildSortedItemsCall ==
  /\ op' = [name |-> "BuildSortedItems", arg |-> Nil]
  /\ \E order \in KeyOrders(DOMAIN items) : ret' = BuildSortedItems(order)
  /\ UNCHANGED <<registry, heap, backends, history>>

LessCall(l, other, reversePath) ==
  /\ op' = [name |-> "Less", arg |-> Nil, l |-> l, other |-> other,
            reversePath |-> reversePath]
  /\ ret' = Less(l, other, reversePath)
  /\ UNCHANGED <<registry, heap, backends, history>>

(* ------------------------- specifications ------------------------------ *)
\* createHost may still allocate, or the call allocates nothing
MayAcquire(hostname) == FindHost(hostname) # Nil \/ Len(heap) < MaxHosts

\* The registry protocol.  Hosts differ by their passthrough flag.
Next ==
  \/ \E hostname \in HostNames : MayAcquire(hostname) /\ AcquireHost(hostname)
  \/ \E hostname \in HostNames : FindHostCall(hostname)
  \/ \E hostnames \in NameLists : RemoveAll(hostnames)
  \/ Shrink
  \/ Commit
  \/ \E h \in HostRefs, value \in BOOLEAN : SetSSLPassthrough(h, value)

Spec == Init /\ [][Next]_vars

\* The calls that move the passthrough counter, without Shrink and Commit.
NextCounter ==
  \/ \E hostname \in HostNames : MayAcquire(hostname) /\ AcquireHost(hostname)
  \/ \E hostnames \in NameLists : RemoveAll(hostnames)
  \/ \E h \in HostRefs, value \in BOOLEAN : SetSSLPassthrough(h, value)

SpecCounter == Init /\ [][NextCounter]_vars

\* One hostname reparsed over the cycles, its Host rebuilt field by field.
NextContent ==
  \/ MayAcquire("a") /\ AcquireHost("a")
  \/ RemoveAll(<<"a">>)
  \/ Shrink
  \/ Commit
  \/ \E h \in HostRefs, backend \in BackendRefs \cup {Nil}, path \in PathStrs :
        Len(heap[h].Paths) < MaxPaths /\ AddPath(h, backend, path, "prefix")
  \/ \E h \in HostRefs, value \in BOOLEAN : SetSSLPassthrough(h, value)
  \/ \E h \in HostRefs, value \in BOOLEAN : SetVarNamespace(h, value)
  \/ \E h \in HostRefs, hash \in CAHashes : SetTLS(h, hash)

SpecContent == Init /\ [][NextContent]_vars

\* One hostname over rebuild cycles; the only hosts written to are hosts
\* created since the last Commit (itemsAdd holds nothing else).
NextCycle ==
  \/ MayAcquire("a") /\ AcquireHost("a")
  \/ RemoveAll(<<"a">>)
  \/ Shrink
  \/ Commit
  \/ \E h \in Range(itemsAdd), backend \in BackendRefs \cup {Nil}, path \in PathStrs :
        Len(heap[h].Paths) < MaxPaths /\ AddPath(h, backend, path, "prefix")
  \/ \E h \in Range(itemsAdd), value \in BOOLEAN : SetSSLPassthrough(h, value)

SpecCycle == Init /\ [][NextCycle]_vars

\* The path list of one host.
NextPaths ==
  \/ heap = <<>> /\ AcquireHost("a")
  \/ \E h \in HostRefs, backend \in BackendRefs \cup {Nil}, path \in SortPathStrs,
        match \in MatchTypes :
        Len(heap[h].Paths) < MaxSortPaths /\ AddPath(h, backend, path, match)
  \/ \E b \in BackendRefs, value \in BackendValues : SetBackend(b, value)
  \/ \E h \in HostRefs, path \in SortPathStrs : FindPathCall(h, path)

SpecPaths == Init /\ [][NextPaths]_vars

\* The hosts of the registry and their sorted enumeration.
NextSorted ==
  \/ \E hostname \in SortedHostNames :
        /\ FindHost(hostname) # Nil \/ Len(heap) < MaxSortedHosts
        /\ AcquireHost(hostname)
  \/ \E hostname \in SortedHostNames : RemoveAll(<<hostname>>)
  \/ BuildSortedItemsCall

SpecSorted == Init /\ [][NextSorted]_vars

\* PathLink.Less on every pair of links.
NextLess ==
  \E l, other \in PathLinks, reversePath \in BOOLEAN : LessCall(l, other, reversePath)

SpecLess == Init /\ [][NextLess]_vars

(* ------------------------------ claims --------------------------------- *)
\* the hosts of items whose passthrough flag is set
FlaggedItems == {k \in DOMAIN items : heap[items[k]].sslPassthrough}
CounterMatches == sslPassthroughCount = Cardinality(FlaggedItems)

\* C1: after Shrink, a hostname is a key of items exactly when the last
\* AcquireHost/RemoveAll call that named it was an AcquireHost (net create and
\* delete; a host acquired and then removed is gone).
C1_ItemsIsNetCreateDelete == op.name = "Shrink" => DOMAIN items = net

\* The hostnames removed and re-acquired in this cycle, the re-acquired Host
\* being the one in items: with content equal to the removed Host's, and not.
Reparsed ==
  {x \in (DOMAIN itemsAdd) \cap (DOMAIN itemsDel) \cap (DOMAIN items) :
     items[x] = itemsAdd[x] /\ itemsAdd[x] # itemsDel[x]}
ReparsedSame == {x \in Reparsed : heap[itemsAdd[x]] = heap[itemsDel[x]]}
ReparsedDiffers == {x \in Reparsed : heap[itemsAdd[x]] # heap[itemsDel[x]]}

\* C2: a hostname removed and re-acquired with structurally identical content
\* is, after Shrink, a key of neither itemsAdd nor itemsDel and still a key of
\* items with that content; Changed() is false if it was the only mutation.
C2_ShrinkCancelsIdenticalReparse ==
  [][op'.name = "Shrink" =>
       \A x \in ReparsedSame :
          /\ x \notin DOMAIN itemsAdd'
          /\ x \notin DOMAIN itemsDel'
          /\ x \in DOMAIN items'
          /\ heap'[items'[x]] = heap[itemsAdd[x]]
          /\ (DOMAIN itemsAdd = {x} /\ DOMAIN itemsDel = {x} => ~Changed')]_vars

\* C2 witness: after a Commit, "a" was removed, re-acquired as another Host
\* and given the same path again; Shrink cancelled the pair.
C2_Witness ==
  /\ op.name = "Shrink" /\ "a" \in op.arg
  /\ hasCommit /\ ~Changed
  /\ "a" \in DOMAIN items /\ "a" \in DOMAIN acquired
  /\ acquired["a"] # items["a"]
  /\ heap[acquired["a"]] = heap[items["a"]]
  /\ Len(heap[items["a"]].Paths) > 0

\* C3: a hostname removed and re-acquired with content that differs in some
\* field is, after Shrink, still a key of itemsAdd and of itemsDel, items
\* holds the re-acquired Host, and Changed() is true.
C3_ShrinkKeepsDifferingReparse ==
  [][op'.name = "Shrink" =>
       \A x \in ReparsedDiffers :
          /\ x \in DOMAIN itemsAdd' /\ itemsAdd'[x] = itemsAdd[x]
          /\ x \in DOMAIN itemsDel' /\ itemsDel'[x] = itemsDel[x]
          /\ x \in DOMAIN items' /\ items'[x] = itemsAdd[x]
          /\ Changed']_vars

\* C3 witness: Shrink has run over a re-acquired "a" that has one path more
\* than the removed Host and is otherwise equal to it.
C3_Witness ==
  /\ op.name = "Shrink"
  /\ "a" \in ReparsedDiffers
  /\ Len(heap[itemsAdd["a"]].Paths) = Len(heap[itemsDel["a"]].Paths) + 1
  /\ [heap[itemsAdd["a"]] EXCEPT !.Paths = <<>>]
       = [heap[itemsDel["a"]] EXCEPT !.Paths = <<>>]
  /\ Changed

\* C4: under AcquireHost, SetSSLPassthrough (on any Host the registry handed
\* out) and RemoveAll, sslPassthroughCount is the number of flagged hosts in
\* items, and HasSSLPassthrough() holds exactly when there is one.
C4_CounterInvariant ==
  /\ CounterMatches
  /\ HasSSLPassthrough <=> FlaggedItems # {}

\* C5: Shrink keeps the counter equal to the number of flagged hosts in items.
C5_ShrinkKeepsCounter ==
  [][op'.name = "Shrink" /\ CounterMatches => CounterMatches']_vars

\* C6: every hostname in items now and not at the last Commit is a key of
\* itemsAdd; every hostname in items at the last Commit and not now is a key
\* of itemsDel.
C6_DeltaIsNetChange ==
  /\ (DOMAIN items) \ (DOMAIN committed) \subseteq DOMAIN itemsAdd
  /\ (DOMAIN committed) \ (DOMAIN items) \subseteq DOMAIN itemsDel

\* C7 as stated: a second AcquireHost(h) in the cycle, no RemoveAll naming h
\* in between, returns the instance the first returned.
C7_SecondAcquireSameInstance ==
  [][op'.name = "AcquireHost" /\ op'.arg \in DOMAIN acquired =>
       ret' = acquired[op'.arg]]_vars

\* C7 amended: a second AcquireHost(h) in the cycle, with no RemoveAll naming
\* h and no Shrink cancelling h's added/removed pair in between, returns the
\* instance the first returned; with no RemoveAll naming h in between it
\* leaves items, itemsAdd, itemsDel and sslPassthroughCount as they are; and
\* AcquireHost of a hostname in items creates no itemsAdd entry.
C7_AcquireIdempotent ==
  [][op'.name = "AcquireHost" =>
       /\ (op'.arg \in DOMAIN acquired /\ op'.arg \notin cancelled =>
             ret' = acquired[op'.arg])
       /\ (op'.arg \in DOMAIN acquired =>
             UNCHANGED <<items, itemsAdd, itemsDel, sslPassthroughCount>>)
       /\ (op'.arg \in DOMAIN items =>
             /\ itemsAdd' = itemsAdd
             /\ ret' = items[op'.arg])]_vars

\* C7 witness: "a" was acquired as a new Host and acquired again.
C7_Witness ==
  /\ op.name = "AcquireHost" /\ op.arg = "a" /\ op.again
  /\ "a" \in DOMAIN itemsAdd
  /\ ret = itemsAdd["a"] /\ ret = items["a"]

\* C8 as stated: each Path is strictly greater than the Path after it.
C8_PathsStrictlyDescending ==
  \A h \in HostRefs : \A i \in 1..(Len(heap[h].Paths) - 1) :
     StrGreater(heap[h].Paths[i].Path, heap[h].Paths[i + 1].Path)

\* C8 amended: after any sequence of AddPath calls the Paths list is sorted
\* descending by path string: each Path is greater than or equal to every
\* Path after it, equal only where a path string was added more than once.
C8_PathsDescending ==
  \A h \in HostRefs : \A i, j \in 1..Len(heap[h].Paths) :
     i < j => \/ StrGreater(heap[h].Paths[i].Path, heap[h].Paths[j].Path)
              \/ heap[h].Paths[i].Path = heap[h].Paths[j].Path

\* C8 witness: three paths, the last call having added the greatest one,
\* one path string twice.
C8_Witness ==
  /\ op.name = "AddPath"
  /\ \E h \in HostRefs :
        /\ Len(heap[h].Paths) = 3
        /\ heap[h].Paths[1].Path = "/b"
        /\ heap[h].Paths[2].Path = "/a"
        /\ heap[h].Paths[3].Path = "/a"

\* C9: Changed() is true exactly when itemsAdd or itemsDel has a key; it is
\* false right after Commit, and it turns from false to true only by an
\* AcquireHost that creates a host or a RemoveAll that removes one.
C9_ChangedTracksDelta ==
  [][/\ Changed' <=> (DOMAIN itemsAdd' # {} \/ DOMAIN itemsDel' # {})
     /\ (op'.name = "Commit" => ~Changed')
     /\ (~Changed /\ Changed' =>
           \/ /\ op'.name = "AcquireHost"
              /\ op'.arg \notin DOMAIN items
              /\ op'.arg \in DOMAIN itemsAdd'
           \/ /\ op'.name = "RemoveAll"
              /\ op'.arg # {}
              /\ op'.arg \subseteq DOMAIN itemsDel')]_vars

\* C9 witness: after a Commit, the first change of the next cycle is a
\* RemoveAll that takes a committed host out of items.
C9_Witness ==
  /\ hasCommit /\ op.name = "RemoveAll" /\ op.arg # {}
  /\ Changed
  /\ DOMAIN itemsAdd = {}
  /\ DOMAIN itemsDel = op.arg
  /\ op.arg \subseteq DOMAIN committed

\* C10: HasCommit() is false on a new registry, true from the first Commit
\* on, and nothing sets it back.
C10_HasCommitSticks ==
  /\ ~HasCommit
  /\ [][/\ (op'.name = "Commit" => HasCommit')
        /\ (HasCommit => HasCommit')
        /\ (~HasCommit /\ HasCommit' => op'.name = "Commit")]_vars

\* C10 witness: after a Commit, a host was given a path and flagged.
C10_Witness ==
  /\ HasCommit
  /\ op.name = "SetSSLPassthrough"
  /\ \E k \in DOMAIN items :
        /\ k \notin DOMAIN committed
        /\ heap[items[k]].sslPassthrough
        /\ Len(heap[items[k]].Paths) > 0

\* C11: RemoveAll ignores the hostnames that are no key of items: a list of
\* such hostnames only changes nothing; of a mixed list exactly the hostnames
\* in items move to itemsDel and leave items, each once however often listed.
C11_RemoveAllIgnoresUnknown ==
  [][op'.name = "RemoveAll" =>
       LET named == Range(op'.hostnames)
           present == named \cap DOMAIN items
       IN /\ items' = [k \in (DOMAIN items) \ present |-> items[k]]
          /\ itemsDel' = [k \in (DOMAIN itemsDel) \cup present |->
                            IF k \in present THEN items[k] ELSE itemsDel[k]]
          /\ sslPassthroughCount' = sslPassthroughCount -
               Cardinality({k \in present : heap[items[k]].sslPassthrough})
          /\ UNCHANGED <<itemsAdd, hasCommit, heap>>
          /\ (present = {} => UNCHANGED registry)]_vars

\* C11 witness: RemoveAll was given the unknown "b" and then "a", a flagged
\* host of items: "a" alone is in itemsDel and gone from items.
C11_Witness ==
  /\ op.name = "RemoveAll"
  /\ op.hostnames = <<"b", "a">>
  /\ op.arg = {"a"}
  /\ DOMAIN itemsDel = {"a"} /\ "a" \notin DOMAIN items
  /\ heap[itemsDel["a"]].sslPassthrough
  /\ sslPassthroughCount = 0

\* C12: BuildSortedItems returns the hosts of items other than the default
\* host, each once, in strictly ascending hostname order, returns the nil
\* slice when there is none, and modifies nothing.
C12_SortedItems ==
  [][op'.name = "BuildSortedItems" =>
       LET want == (DOMAIN items) \ {DefaultHost}
           got == ret'.elems
       IN /\ ret'.isNil <=> want = {}
          /\ Len(got) = Cardinality(want)
          /\ Range(got) = {items[k] : k \in want}
          /\ \A i, j \in 1..Len(got) :
                i < j => StrLess(heap[got[i]].Hostname, heap[got[j]].Hostname)
          /\ UNCHANGED <<registry, heap, backends>>]_vars

\* C12 witness: items holds "a", "b" and the default host, "b" acquired
\* before "a"; the result is the hosts of "a" and "b" in this order.
C12_Witness ==
  /\ op.name = "BuildSortedItems"
  /\ DOMAIN items = {"a", "b", DefaultHost}
  /\ items["b"] < items["a"]
  /\ ret = Slice(<<items["a"], items["b"]>>)

\* C13: Less compares the hostnames first, ascending, and for equal
\* hostnames the paths, ascending without reversePath and descending with it;
\* for either flag it is a strict total order on PathLinks.
C13_LessIsStrictTotalOrder ==
  op.name = "Less" =>
    LET l == op.l
        o == op.other
        rev == op.reversePath
    IN /\ l.hostname # o.hostname => (ret <=> StrLess(l.hostname, o.hostname))
       /\ l.hostname = o.hostname /\ ~rev => (ret <=> StrLess(l.path, o.path))
       /\ l.hostname = o.hostname /\ rev => (ret <=> StrLess(o.path, l.path))
       /\ l = o => ~ret
       /\ ret => ~Less(o, l, rev)
       /\ l # o => ret \/ Less(o, l, rev)
       /\ \A m \in PathLinks : ret /\ Less(o, m, rev) => Less(l, m, rev)

\* C13 witness: with reversePath, ("a", "/a") is less than ("a", "/").
C13_Witness ==
  /\ op.name = "Less"
  /\ op.l = CreatePathLink("a", "/a")
  /\ op.other = CreatePathLink("a", "/")
  /\ op.reversePath
  /\ ret = TRUE

\* the number of elements of s equal to e
Count(s, e) == Cardinality({i \in DOMAIN s : s[i] = e})

\* the HostPath an AddPath step has to add, from its arguments and the state
\* it was called in
Expected(h, backend, path, match) ==
  [Path |-> path,
   Link |-> [hostname |-> heap[h].Hostname, path |-> path],
   Match |-> match,
   Backend |-> IF backend # Nil
               THEN [ID |-> backends[backend].ID,
                     Namespace |-> backends[backend].Namespace,
                     Name |-> backends[backend].Name,
                     Port |-> backends[backend].Port]
               ELSE [ID |-> "_error404", Namespace |-> "", Name |-> "",
                     Port |-> ""]]

\* C14: AddPath with a backend binds a copy of the backend's ID, Namespace,
\* Name and Port as they are at the call, later assignments to the backend
\* leave every bound HostBackend as it is, and the backend's reverse index
\* gains the link (hostname, path) and nothing else.
C14_BackendIsSnapshot ==
  [][/\ (op'.name = "AddPath" /\ op'.backend # Nil =>
           LET h == op'.host
               b == op'.backend
               new == Expected(h, b, op'.path, op'.match)
           IN /\ Count(heap'[h].Paths, new) = Count(heap[h].Paths, new) + 1
              /\ backends' = [backends EXCEPT ![b].Paths = @ \cup {new.Link}])
     /\ (op'.name = "SetBackend" => heap' = heap)]_vars

\* C14 witness: the backend's fields were assigned after a path was bound to
\* it; the path still carries the identity the backend had at AddPath.
C14_Witness ==
  /\ op.name = "SetBackend"
  /\ backends[1].Port = "9090"
  /\ \E h \in HostRefs : \E i \in 1..Len(heap[h].Paths) :
        /\ heap[h].Paths[i].Backend =
             [ID |-> "ns_svc_8080", Namespace |-> "ns", Name |-> "svc",
              Port |-> "8080"]
        /\ heap[h].Paths[i].Link \in backends[1].Paths

\* C15: Commit empties itemsAdd and itemsDel and sets hasCommit; the keys of
\* items, every host (paths and flags included) and sslPassthroughCount are
\* what they were before the call.
C15_CommitFrame ==
  [][op'.name = "Commit" =>
       /\ itemsAdd' = EmptyMap
       /\ itemsDel' = EmptyMap
       /\ hasCommit'
       /\ items' = items
       /\ heap' = heap
       /\ sslPassthroughCount' = sslPassthroughCount
       /\ backends' = backends]_vars

\* C15 witness: a Commit has returned on a registry that holds a host with a
\* path and the passthrough flag, counted once.
C15_Witness ==
  /\ op.name = "Commit"
  /\ hasCommit
  /\ itemsAdd = EmptyMap
  /\ itemsDel = EmptyMap
  /\ "a" \in DOMAIN items
  /\ Len(heap[items["a"]].Paths) = 1
  /\ heap[items["a"]].sslPassthrough
  /\ sslPassthroughCount = 1

\* C16: AddPath with a nil backend adds a HostPath bound to the sentinel
\* HostBackend with ID "_error404" and empty Namespace, Name and Port, and
\* leaves every backend's reverse index alone; with or without a backend the
\* added HostPath has the Link (hostname, path) and the Path and Match given.
C16_NilBackendGetsSentinel ==
  [][op'.name = "AddPath" =>
       LET h == op'.host
           hostname == heap[h].Hostname
       IN /\ Len(heap'[h].Paths) = Len(heap[h].Paths) + 1
          /\ \E i \in 1..Len(heap'[h].Paths) :
               LET p == heap'[h].Paths[i] IN
               /\ Count(heap'[h].Paths, p) = Count(heap[h].Paths, p) + 1
               /\ p.Path = op'.path
               /\ p.Match = op'.match
               /\ p.Link = [hostname |-> hostname, path |-> op'.path]
               /\ (op'.backend = Nil =>
                     p.Backend = [ID |-> "_error404", Namespace |-> "",
                                  Name |-> "", Port |-> ""])
          /\ (op'.backend = Nil => backends' = backends)]_vars

\* C16 witness: AddPath was called without a backend; the host has a path
\* bound to the sentinel and no backend has a link.
C16_Witness ==
  /\ op.name = "AddPath"
  /\ op.backend = Nil
  /\ \E i \in 1..Len(heap[op.host].Paths) :
        /\ heap[op.host].Paths[i].Path = op.path
        /\ heap[op.host].Paths[i].Backend.ID = "_error404"
  /\ \A b \in BackendRefs : backends[b].Paths = {}

\* C17: every AddPath adds one entry, the one made of its arguments, and
\* keeps every entry the host had, equal paths included; no other call
\* touches a host's paths and a new host has none, so after k calls Paths is
\* the multiset of the k arguments.  FindPath(p) returns an entry whose Path
\* is p when the host has one and nil when it has none.
C17_AddPathKeepsEveryEntry ==
  [][/\ (op'.name = "AddPath" =>
           LET h == op'.host
               new == Expected(h, op'.backend, op'.path, op'.match)
           IN /\ Len(heap'[h].Paths) = Len(heap[h].Paths) + 1
              /\ \A e \in Range(heap[h].Paths) \cup Range(heap'[h].Paths) :
                   Count(heap'[h].Paths, e) =
                     Count(heap[h].Paths, e) + (IF e = new THEN 1 ELSE 0)
              /\ \A g \in HostRefs \ {h} : heap'[g].Paths = heap[g].Paths)
     /\ (op'.name # "AddPath" =>
           /\ \A g \in HostRefs : heap'[g].Paths = heap[g].Paths
           /\ \A g \in (1..Len(heap')) \ HostRefs : heap'[g].Paths = <<>>)
     /\ (op'.name = "FindPath" =>
           LET paths == heap[op'.host].Paths IN
           IF \E i \in 1..Len(paths) : paths[i].Path = op'.path
           THEN ret' \in 1..Len(paths) /\ paths[ret'].Path = op'.path
           ELSE ret' = Nil)]_vars

\* C17 witness: the same path was added twice to a host that has a third
\* path too; all three entries are there and FindPath returned one of the two.
C17_Witness ==
  /\ op.name = "FindPath"
  /\ ret # Nil
  /\ LET paths == heap[op.host].Paths IN
     /\ Len(paths) = 3
     /\ \E i, j \in 1..3 : /\ i # j
                           /\ paths[i].Path = op.path
                           /\ paths[j].Path = op.path
     /\ \E i \in 1..3 : paths[i].Path # op.path

\* C18: when Changed() is false after Shrink, items has the hostnames it had
\* at the last Commit and each host equals the host committed under its
\* hostname (the committed hosts are not written to in this specification,
\* so they still have the content they were committed with).
C18_NoChangeHidden ==
  op.name = "Shrink" /\ ~Changed =>
    /\ DOMAIN items = DOMAIN committed
    /\ \A k \in DOMAIN items : heap[items[k]] = heap[committed[k]]

\* C19: sslPassthroughCount is never negative, whatever AcquireHost,
\* SetSSLPassthrough, RemoveAll, Shrink and Commit calls were made.
C19_CounterNeverNegative == sslPassthroughCount >= 0

\* C20: after Shrink no hostname is a key of both itemsAdd and itemsDel with
\* equal hosts; Shrink adds no key to either map and takes the same keys out
\* of both; and a Shrink that follows a Shrink changes nothing in items,
\* itemsAdd, itemsDel and sslPassthroughCount.
C20_ShrinkIdempotent ==
  [][op'.name = "Shrink" =>
       /\ \A name \in (DOMAIN itemsAdd') \cap (DOMAIN itemsDel') :
            /\ itemsAdd'[name] # itemsDel'[name]
            /\ heap'[itemsAdd'[name]] # heap'[itemsDel'[name]]
       /\ DOMAIN itemsAdd' \subseteq DOMAIN itemsAdd
       /\ DOMAIN itemsDel' \subseteq DOMAIN itemsDel
       /\ \A name \in DOMAIN itemsAdd' : itemsAdd'[name] = itemsAdd[name]
       /\ \A name \in DOMAIN itemsDel' : itemsDel'[name] = itemsDel[name]
       /\ (DOMAIN itemsAdd) \ (DOMAIN itemsAdd') =
            (DOMAIN itemsDel) \ (DOMAIN itemsDel')
       /\ (op.name = "Shrink" =>
             /\ items' = items
             /\ itemsAdd' = itemsAdd
             /\ itemsDel' = itemsDel
             /\ sslPassthroughCount' = sslPassthroughCount)]_vars

\* C20 witness: one Shrink cancelled the pairs of two hostnames at once and
\* left the delta empty.
C20_Witness ==
  /\ op.name = "Shrink"
  /\ op.arg = {"a", "b"}
  /\ itemsAdd = EmptyMap
  /\ itemsDel = EmptyMap

====
